---------------------------- MODULE Spec2Model ----------------------------
(***************************************************************************)
(* A model of hific/models/hyperprior.py: the quantization and entropy     *)
(* primitives of CodingModel, the two density models PriorDensity and      *)
(* HyperpriorDensity, and the Hyperprior orchestrator.                     *)
(*                                                                         *)
(* Numbers.  Tensor elements are held on a fixed-point grid: the integer v *)
(* stands for the real v / ONE (so HALF stands for the 0.5 of the source). *)
(* Probabilities are held in units of 1 / PONE, logarithms in units of     *)
(* ln(2) / LOGQ and bit counts in units of 1 / LOGQ bits.  The             *)
(* transcendental functions of torch are tables of their true values       *)
(* rounded to the grid.                                                    *)
(*                                                                         *)
(* Tensors.  A tensor is a record [shape, data] with data in row-major     *)
(* order.  Tensors live in a heap (a sequence); the variables of the       *)
(* program hold references (indices) into it, so that aliasing and         *)
(* in-place updates are what they are in the source.                       *)
(***************************************************************************)
EXTENDS Integers, Sequences, FiniteSets, TLC

VARIABLES
    heap,       \* the tensors allocated so far; a reference is an index
    self,       \* the module under call: its training flag and parameters
    call,       \* the entry point the caller invoked and its arguments
    pc,         \* the position of the running call
    loc,        \* the local variables of the running call (name -> value)
    ret,        \* the value returned (NONE until the call has ended)
    heap0       \* the heap when the call began (never written afterwards)

vars == <<heap, self, call, pc, loc, ret, heap0>>

-----------------------------------------------------------------------------
(* Scales and program constants *)

\* the 0.5 of the source (uniform_ limits, floor(values + 0.5), x +- 0.5)
HALF == 4

ONE == 2 * HALF

\* the unit probability, 1.0
PONE == 128 * ONE

\* MIN_SCALE = 0.11, the smallest positive step of the grid
MIN_SCALE == 1

\* MIN_LIKELIHOOD = 1e-9, the smallest positive probability of the grid
MIN_LIKELIHOOD == 1

\* MAX_LIKELIHOOD = 1e3
MAX_LIKELIHOOD == 1000 * PONE

\* EPS = 1e-9 of _estimate_entropy, the same magnitude as MIN_LIKELIHOOD
EPS == 1

\* the resolution of logarithms: np.log(2.) is LOGQ units
LOGQ == 2 * HALF

NONE == "None"

-----------------------------------------------------------------------------
(* Scalar arithmetic *)

Abs(v) == IF v < 0 THEN -v ELSE v

Max(a, b) == IF a >= b THEN a ELSE b

Min(a, b) == IF a <= b THEN a ELSE b

\* n / d rounded to the nearest integer, halves to even (the rounding of a
\* floating-point operation: symmetric in the sign)
RoundDiv(n, d) ==
    LET q == Abs(n) \div Abs(d)
        r == Abs(n) % Abs(d)
        m == IF 2 * r > Abs(d) \/ (2 * r = Abs(d) /\ q % 2 = 1) THEN q + 1 ELSE q
    IN  IF (n < 0) = (d < 0) THEN m ELSE -m

\* torch.sign on one element
Sign(v) == IF v > 0 THEN 1 ELSE IF v < 0 THEN -1 ELSE 0

\* torch.floor on one element of the grid
Floor(v) == (v \div ONE) * ONE

\* torch.round on one element: to the nearest integer, halves to even
Round(v) ==
    LET f == v \div ONE
        r == v - f * ONE
    IN  IF r < HALF THEN f * ONE
        ELSE IF r > HALF THEN (f + 1) * ONE
        ELSE IF f % 2 = 0 THEN f * ONE ELSE (f + 1) * ONE

\* torch.clamp(v, min=lo) and torch.clamp(v, min=lo, max=hi) on one element
ClampMin(v, lo) == Max(v, lo)

Clamp(v, lo, hi) == Min(Max(v, lo), hi)

\* a table value at index |t|, saturating at the table's last entry
Lookup(tab, t) == tab[Min(Abs(t), Len(tab) - 1) + 1]

\* ONE * log1p(exp(-t / ONE)), t = 0, 1, 2, ...
SoftplusTail ==
    <<6, 5, 5, 4, 4, 3, 3, 3, 3, 2, 2, 2, 2, 1, 1, 1, 1, 1, 1, 1, 1, 1, 0>>

\* softplus left out: the weight itself
SoftplusLinear(v) == v

\* F.softplus on one element: max(v, 0) + log1p(exp(-|v|))
Softplus(v) == Max(v, 0) + Lookup(SoftplusTail, v)

\* ONE * tanh(t / ONE), t = 0, 1, 2, ...
TanhTable == <<0, 1, 2, 3, 4, 4, 5, 6, 6, 6, 7, 7, 7, 7, 8>>

\* torch.tanh on one element (an odd function)
Tanh(v) == Sign(v) * Lookup(TanhTable, v)

\* PONE * sigmoid(t / ONE), t = 0, 1, 2, ...
SigmoidTable ==
    <<512, 544, 576, 607, 637, 667, 695, 723, 749, 773, 796, 817, 837, 856,
      872, 888, 902, 915, 926, 937, 946, 955, 962, 969, 975, 981, 986, 990,
      994, 997, 1000, 1003, 1006, 1008, 1010, 1011, 1013, 1014, 1015, 1016,
      1017, 1018, 1019, 1019, 1020, 1020, 1021, 1021, 1021, 1022, 1022, 1022,
      1022, 1023, 1023, 1023, 1023, 1023, 1023, 1023, 1023, 1024>>

\* torch.sigmoid on one element: sigmoid(-v) = 1 - sigmoid(v)
Sigmoid(v) ==
    IF v >= 0 THEN Lookup(SigmoidTable, v) ELSE PONE - Lookup(SigmoidTable, v)

\* PONE * Phi(t / ONE), Phi the standard normal CDF, t = 0, 1, 2, ...
PhiTable ==
    <<512, 563, 613, 662, 708, 752, 792, 829, 862, 891, 916, 937, 956, 971,
      983, 993, 1001, 1007, 1011, 1015, 1018, 1020, 1021, 1022, 1023, 1023,
      1023, 1024>>

\* PriorDensity.standardized_CDF on one element: 0.5 * erfc(-v / sqrt(2))
standardized_CDF(v) ==
    IF v >= 0 THEN Lookup(PhiTable, v) ELSE PONE - Lookup(PhiTable, v)

RECURSIVE FloorLog2(_)
\* the largest k with 2^k <= p, for p >= 1
FloorLog2(p) == IF p < 2 THEN 0 ELSE 1 + FloorLog2(p \div 2)

RECURSIVE Pow2(_)
Pow2(k) == IF k = 0 THEN 1 ELSE 2 * Pow2(k - 1)

\* torch.log on one probability p > 0: LOGQ * log2(p / PONE), the fraction
\* of the logarithm interpolated linearly between powers of two
Log(p) ==
    LET k == FloorLog2(p)
    IN  LOGQ * k + (LOGQ * (p - Pow2(k))) \div Pow2(k) - LOGQ * FloorLog2(PONE)

-----------------------------------------------------------------------------
(* Tensors: shape and row-major data *)

RECURSIVE Prod(_)
Prod(s) == IF Len(s) = 0 THEN 1 ELSE Head(s) * Prod(Tail(s))

RECURSIVE SumSeq(_)
SumSeq(s) == IF Len(s) = 0 THEN 0 ELSE Head(s) + SumSeq(Tail(s))

\* v names the value of x in F(v): x is computed once
Let1(x, F(_)) == CHOOSE r \in {F(v) : v \in {x}} : TRUE

Let2(x, y, F(_, _)) == CHOOSE r \in {F(v, w) : v \in {x}, w \in {y}} : TRUE

\* a tensor; its elements are computed once, when it is made
Tensor(shape, data) == [shape |-> shape, data |-> SubSeq(data, 1, Len(data))]

\* torch.full(shape, v)
Full(shape, v) == Tensor(shape, [i \in 1..Prod(shape) |-> v])

Numel(t) == Len(t.data)

\* the number of elements one step along axis d skips
Stride(shape, d) == Prod(SubSeq(shape, d + 1, Len(shape)))

\* coordinate d (from 0) of the element at flat index i (from 0)
Coord(shape, i, d) == (i \div Stride(shape, d)) % shape[d]

\* a sequence, its elements computed once
Sequence(f) == SubSeq(f, 1, Len(f))

Strides(shape) == Sequence([d \in 1..Len(shape) |-> Stride(shape, d)])

\* the steps through a tensor of shape ts that broadcasting takes along each
\* axis: none along an axis of size 1
BroadcastSteps(ts) ==
    Sequence([d \in 1..Len(ts) |-> IF ts[d] = 1 THEN 0 ELSE Stride(ts, d)])

\* the flat index (from 0) reached by taking, along each axis d, steps[d]
\* for each unit of coordinate d of element i of a tensor of shape s
Offset(steps, s, strides, i) ==
    SumSeq([d \in 1..Len(s) |-> ((i \div strides[d]) % s[d]) * steps[d]])

\* an element-wise binary operation with torch's broadcasting (equal ranks)
Broadcast(Op(_, _), a, b) ==
    Let2(a, b, LAMBDA x, y :
      IF x.shape = y.shape
      THEN Tensor(x.shape, [i \in 1..Numel(x) |-> Op(x.data[i], y.data[i])])
      ELSE Let1(Sequence([d \in 1..Len(x.shape) |-> Max(x.shape[d], y.shape[d])]),
                LAMBDA s :
           Let2(Strides(s), <<BroadcastSteps(x.shape), BroadcastSteps(y.shape)>>,
                LAMBDA strides, steps :
             Tensor(s, [i \in 1..Prod(s) |->
                          Op(x.data[1 + Offset(steps[1], s, strides, i - 1)],
                             y.data[1 + Offset(steps[2], s, strides, i - 1)])]))))

\* an element-wise unary operation
Map(Op(_), t) ==
    Let1(t, LAMBDA x : Tensor(x.shape, [i \in 1..Numel(x) |-> Op(x.data[i])]))

Add(a, b) == a + b

Sub(a, b) == a - b

\* the product of two grid numbers, back on the grid
Mul(a, b) == RoundDiv(a * b, ONE)

\* the quotient of two grid numbers, back on the grid
Div(a, b) == RoundDiv(a * ONE, b)

\* tensor + scalar
AddScalar(t, c) ==
    Let1(t, LAMBDA x : Tensor(x.shape, [i \in 1..Numel(x) |-> x.data[i] + c]))


\* Tensor.permute: axis d of the result is axis perm[d] (from 1) of t
Permute(t, perm) ==
    Let1(t, LAMBDA x :
      Let1(Sequence([d \in 1..Len(perm) |-> x.shape[perm[d]]]), LAMBDA s :
      Let2(Strides(s),
           Sequence([d \in 1..Len(perm) |-> Stride(x.shape, perm[d])]),
           LAMBDA strides, steps :
        Tensor(s, [i \in 1..Prod(s) |->
                     x.data[1 + Offset(steps, s, strides, i - 1)]]))))

\* torch.reshape: the same elements in the same order
Reshape(t, shape) == [shape |-> shape, data |-> t.data]

\* torch.bmm of A (C, F1, F0) and X (C, F0, B): a matrix product per channel
Bmm(A, X) ==
    Let2(A, X, LAMBDA a, x :
      LET F1 == a.shape[2]
          F0 == a.shape[3]
          B == x.shape[3]
          s == <<a.shape[1], F1, B>>
          Cell(c, f, b) ==
              SumSeq([j \in 1..F0 |->
                        Mul(a.data[1 + (c * F1 + f) * F0 + (j - 1)],
                            x.data[1 + (c * F0 + (j - 1)) * B + b])])
      IN  Tensor(s, [i \in 1..Prod(s) |->
                       Cell((i - 1) \div (F1 * B), ((i - 1) \div B) % F1,
                            (i - 1) % B)]))

\* torch.sum over every element
SumAll(t) == SumSeq(t.data)

-----------------------------------------------------------------------------
(* The heap *)

\* a new tensor: the heap with it, and its reference
Alloc(h, t) == Let1(Append(h, t), LAMBDA h1 : [h |-> h1, r |-> Len(h1)])

\* an in-place write (+=) through reference r
Store(h, r, t) == [h |-> [h EXCEPT ![r] = t], r |-> r]

-----------------------------------------------------------------------------
(* CodingModel *)

\* the error of an operation that raised nothing
NoError == "None"

\* CodingModel._quantize(x, mode); noise is the tensor uniform_ drew
_quantize(h, x, mode, noise) ==
    Let1(h, LAMBDA h0 :
      IF mode = "noise"
      THEN Alloc(h0, Broadcast(Add, h0[x], noise)) @@ [err |-> NoError]
      ELSE IF mode = "quantize"
      THEN Alloc(h0, Map(Round, h0[x])) @@ [err |-> NoError]
      ELSE [h |-> h0, r |-> 0, err |-> "NotImplementedError"])

\* torch.log(likelihood + EPS) on one element
LogLikelihood(l) == Log(l + EPS)

\* the quotient without its sign: np.log(2.)
QuotientUnsigned == LOGQ

\* quotient = -np.log(2.)
Quotient == -LOGQ

\* CodingModel._estimate_entropy(x, likelihood): (n_bits, bpp)
_estimate_entropy(x, likelihood) ==
    Let1(x.shape, LAMBDA input_shape :
      LET batch_size == input_shape[1]
          n_pixels == input_shape[3] * input_shape[4]
      IN  Let1(Map(LogLikelihood, likelihood), LAMBDA log_likelihood :
          Let1(RoundDiv(SumAll(log_likelihood) * LOGQ, batch_size * Quotient),
               LAMBDA n_bits :
                 [n_bits |-> n_bits, bpp |-> RoundDiv(n_bits, n_pixels)])))

-----------------------------------------------------------------------------
(* PriorDensity *)

LowerBoundScale(v) == ClampMin(v, MIN_SCALE)

\* the likelihood returned as computed, with no clamp
UnclampedLikelihood(v) == v

ClampLikelihood(v) == Clamp(v, MIN_LIKELIHOOD, MAX_LIKELIHOOD)

\* cdf_upper - cdf_lower on one element: x = |x - mean|, scale clamped
GaussianMass(x, scale) ==
    standardized_CDF(Div(HALF - x, scale))
    - standardized_CDF(Div(-(HALF + x), scale))

\* PriorDensity.likelihood(x, mean, scale)
PriorDensity_likelihood(h, x, mean, scale) ==
    Let1(h, LAMBDA h0 :
      Let1(Map(LowerBoundScale, h0[scale]), LAMBDA scale1 :
      Let1(Broadcast(Sub, h0[x], h0[mean]), LAMBDA x1 :
      Let1(Map(Abs, x1), LAMBDA x2 :
      Let1(Broadcast(GaussianMass, x2, scale1), LAMBDA likelihood :
        Alloc(h0, Map(ClampLikelihood, likelihood)))))))

-----------------------------------------------------------------------------
(* HyperpriorDensity *)

\* Tensor.detach(): a tensor on the same storage
Detach(r) == r

\* the product written into the tensor logits names, as an in-place
\* operation would
BindProductInPlace(h, logits, product) == Store(h, logits, product)

\* logits = torch.bmm(...): the name is bound to the product, a new tensor
BindProduct(h, logits, product) == Alloc(h, product)

\* one iteration, k from 0, of the loop of cdf_logits
CdfLayer(m, h, logits, k, update_parameters) ==
    LET H_k == IF update_parameters THEN m.H[k + 1] ELSE Detach(m.H[k + 1])
        a_k == IF update_parameters THEN m.a[k + 1] ELSE Detach(m.a[k + 1])
        b_k == IF update_parameters THEN m.b[k + 1] ELSE Detach(m.b[k + 1])
    IN  Let1(h, LAMBDA h0 :
        \* logits = torch.bmm(F.softplus(H_k), logits)
        Let1(BindProduct(h0, logits, Bmm(Map(Softplus, h0[H_k]), h0[logits])),
             LAMBDA s1 :
        \* logits += b_k
        Let1(Store(s1.h, s1.r, Broadcast(Add, s1.h[s1.r], s1.h[b_k])),
             LAMBDA s2 :
        \* logits += torch.tanh(a_k) * torch.tanh(logits)
        Store(s2.h, s2.r,
              Broadcast(Add, s2.h[s2.r],
                        Broadcast(Mul, Map(Tanh, s2.h[a_k]),
                                  Map(Tanh, s2.h[s2.r])))))))

RECURSIVE CdfLoop(_, _, _, _, _)
CdfLoop(m, h, logits, k, update_parameters) ==
    IF k = Len(m.filters) + 1 THEN [h |-> h, r |-> logits]
    ELSE Let1(CdfLayer(m, h, logits, k, update_parameters), LAMBDA s :
           CdfLoop(m, s.h, s.r, k + 1, update_parameters))

\* HyperpriorDensity.cdf_logits(x, update_parameters)
cdf_logits(m, h, x, update_parameters) ==
    CdfLoop(m, h, x, 0, update_parameters)

\* the likelihood of one element from its two CDF logits
SignFlipLikelihood(cdf_upper, cdf_lower) ==
    LET sign == -Sign(cdf_upper + cdf_lower)
    IN  Abs(Sigmoid(sign * cdf_upper) - Sigmoid(sign * cdf_lower))

\* HyperpriorDensity.likelihood(x); the record also names the tensors the
\* call held in its local variables
HyperpriorDensity_likelihood(m, h, x) ==
    Let1(h[x], LAMBDA x0 :
      LET N == x0.shape[1]
          C == x0.shape[2]
          H == x0.shape[3]
          W == x0.shape[4]
      IN  \* latents, in (C, 1, *) format
          Let1(Reshape(Permute(x0, <<2, 1, 3, 4>>), <<C, 1, N * H * W>>),
               LAMBDA latents :
          \* cdf_upper = self.cdf_logits(latents + 0.5)
          Let1(Alloc(h, AddScalar(latents, HALF)), LAMBDA u0 :
          Let1(cdf_logits(m, u0.h, u0.r, TRUE), LAMBDA u1 :
          \* cdf_lower = self.cdf_logits(latents - 0.5)
          Let1(Alloc(u1.h, AddScalar(latents, -HALF)), LAMBDA l0 :
          Let1(cdf_logits(m, l0.h, l0.r, TRUE), LAMBDA l1 :
          \* likelihood = torch.abs(sigmoid(sign * upper) - sigmoid(sign * lower))
          Let1(Alloc(l1.h, Broadcast(SignFlipLikelihood, l1.h[u1.r], l1.h[l1.r])),
               LAMBDA raw :
          \* back to (N, C, H, W), and clamped
          Let1(Alloc(raw.h,
                     Map(ClampLikelihood,
                         Permute(Reshape(raw.h[raw.r], <<C, N, H, W>>),
                                 <<2, 1, 3, 4>>))),
               LAMBDA out :
            [h |-> out.h, r |-> out.r,
             upper_in |-> u0.r, cdf_upper |-> u1.r,
             lower_in |-> l0.r, cdf_lower |-> l1.r,
             likelihood |-> raw.r]))))))))

-----------------------------------------------------------------------------
(* Hyperprior *)

\* the residual of a floor without the + 0.5
TruncatingDelta(v) == Floor(v) - v

\* delta = (torch.floor(values + 0.5) - values).detach() on one element
RoundingDelta(v) == Floor(v + HALF) - v

\* Hyperprior.quantize_latents(values, means)
quantize_latents(h, values, means) ==
    Let1(h, LAMBDA h0 :
      Let1(Broadcast(Sub, h0[values], h0[means]), LAMBDA values1 :
      Let1(Map(RoundingDelta, values1), LAMBDA delta :
      Let1(Broadcast(Add, values1, delta), LAMBDA values2 :
      Let1(Broadcast(Add, values2, h0[means]), LAMBDA values3 :
        Alloc(h0, values3))))))

\* the transform networks of hific.models.network, by their contract: the
\* analysis network maps (N, C, H, W) to (N, N_h, H', W'), here with
\* H' = W' = 1; net holds the weights
analysis_net(net, n_h, latents) ==
    Let1(latents, LAMBDA x :
      LET per == Prod(Tail(x.shape))
          Pooled(n) == SumSeq(SubSeq(x.data, (n - 1) * per + 1, n * per))
          s == <<x.shape[1], n_h, 1, 1>>
      IN  Tensor(s, [i \in 1..Prod(s) |->
                       Mul(net.analysis, Pooled(Coord(s, i - 1, 1) + 1))
                       + Coord(s, i - 1, 2) * HALF]))

\* the sum over the channels of the hyperlatents of sample n
HyperSum(hyper, n) ==
    SumSeq(SubSeq(hyper.data, (n - 1) * Prod(Tail(hyper.shape)) + 1,
                  n * Prod(Tail(hyper.shape))))

\* synthesis_mu: (N, N_h, H', W') to (N, C, H, W), any real value
synthesis_mu(net, hyper, shape) ==
    Let2(hyper, shape, LAMBDA x, s :
      Tensor(s, [i \in 1..Prod(s) |->
                   Mul(net.mu, HyperSum(x, Coord(s, i - 1, 1) + 1))]))

\* synthesis_std: the same with final_activation='softplus'
synthesis_std(net, hyper, shape) ==
    Let2(hyper, shape, LAMBDA x, s :
      Tensor(s, [i \in 1..Prod(s) |->
                   Softplus(Mul(net.std, HyperSum(x, Coord(s, i - 1, 1) + 1)))]))

\* a local variable is bound by the first assignment to it
Bind(l, name, v) ==
    [n \in DOMAIN l \cup {name} |-> IF n = name THEN v ELSE l[n]]

Bound(l, name) == name \in DOMAIN l

\* the record with the noisy total summed from the quantized hyperlatent rate
HyperInfoMixedTotals(l) ==
    [kind |-> "HyperInfo",
     decoded |-> l["latents_decoded"],
     latent_nbpp |-> l["noisy_latent_bpp"],
     hyperlatent_nbpp |-> l["noisy_hyperlatent_bpp"],
     total_nbpp |-> l["noisy_latent_bpp"] + l["quantized_hyperlatent_bpp"],
     latent_qbpp |-> l["quantized_latent_bpp"],
     hyperlatent_qbpp |-> l["quantized_hyperlatent_bpp"],
     total_qbpp |-> l["quantized_latent_bpp"] + l["quantized_hyperlatent_bpp"],
     bitstring |-> NONE,
     side_bitstring |-> NONE]

\* the HyperInfo record of Hyperprior.forward, from its local variables
HyperInfo(l) ==
    [kind |-> "HyperInfo",
     decoded |-> l["latents_decoded"],
     latent_nbpp |-> l["noisy_latent_bpp"],
     hyperlatent_nbpp |-> l["noisy_hyperlatent_bpp"],
     total_nbpp |-> l["noisy_latent_bpp"] + l["noisy_hyperlatent_bpp"],
     latent_qbpp |-> l["quantized_latent_bpp"],
     hyperlatent_qbpp |-> l["quantized_hyperlatent_bpp"],
     total_qbpp |-> l["quantized_latent_bpp"] + l["quantized_hyperlatent_bpp"],
     bitstring |-> NONE,
     side_bitstring |-> NONE]

Raise(error) == [kind |-> "raise", error |-> error]

Returned(r) == [kind |-> "tensor", r |-> r]

NotReturned == [kind |-> "running"]

-----------------------------------------------------------------------------
(* Construction: HyperpriorDensity.__init__ and Hyperprior.__init__ *)

\* the largest number of elements of an input tensor
MaxElems == 2

\* hyperlatent channel counts of the two presets (192 and 320 in the source)
SMALL_HYPERLATENT_FILTERS == 1

LARGE_HYPERLATENT_FILTERS == 2

\* filters=(3, 3, 3), the default of HyperpriorDensity
DefaultFilters == <<3, 3, 3>>

\* filters = (1,) + self.filters + (1,)
Widths(filters) == <<1>> \o filters \o <<1>>

RECURSIVE Flatten(_)
Flatten(ss) == IF Len(ss) = 0 THEN <<>> ELSE Head(ss) \o Flatten(Tail(ss))

Seqs(S, n) == [1..n -> S]

\* H_init = np.log(np.expm1(1 / scale / filters[k + 1])) for init_scale=10
\* and filters=(3, 3, 3): -1.58 for the layers of width 3, -0.28 for the last
H_init(filters, k) == IF Widths(filters)[k + 2] = 1 THEN -2 ELSE -13

\* the parameters of one channel as the constructor leaves them: H_k
\* constant, a_k zero, b_k drawn by uniform_(-0.5, 0.5) (here: all draws b)
ConstructedChannel(filters, b) ==
    LET W == Widths(filters)
        K == Len(filters) + 1
    IN  [H |-> [k \in 1..K |-> [j \in 1..(W[k + 1] * W[k]) |-> H_init(filters, k - 1)]],
         a |-> [k \in 1..K |-> [j \in 1..W[k + 1] |-> 0]],
         b |-> [k \in 1..K |-> [j \in 1..W[k + 1] |-> b]]]

\* the registered parameters H_0, a_0, b_0, H_1, ... as tensors, from the
\* parameters chans[c] of each channel c
ParamHeap(filters, chans) ==
    LET W == Widths(filters)
        K == Len(filters) + 1
        C == Len(chans)
        Layer(i) == (i - 1) \div 3 + 1
    IN  [i \in 1..(3 * K) |->
           LET k == Layer(i)
           IN  CASE (i - 1) % 3 = 0 ->
                      Tensor(<<C, W[k + 1], W[k]>>,
                             Flatten([c \in 1..C |-> chans[c].H[k]]))
                 [] (i - 1) % 3 = 1 ->
                      Tensor(<<C, W[k + 1], 1>>,
                             Flatten([c \in 1..C |-> chans[c].a[k]]))
                 [] OTHER ->
                      Tensor(<<C, W[k + 1], 1>>,
                             Flatten([c \in 1..C |-> chans[c].b[k]]))]

\* the module: getattr(self, 'H_k') is H[k + 1], a reference into the heap
Module(training, n_channels, filters, net) ==
    LET K == Len(filters) + 1
    IN  [training |-> training,
         n_channels |-> n_channels,
         filters |-> filters,
         H |-> [k \in 1..K |-> 3 * (k - 1) + 1],
         a |-> [k \in 1..K |-> 3 * (k - 1) + 2],
         b |-> [k \in 1..K |-> 3 * (k - 1) + 3],
         net |-> net]

NoNet == [analysis |-> 0, mu |-> 0, std |-> 0]

\* values of the elements of the latents given to forward
LatVals == {-12, 5}

\* draws of uniform_(-0.5, 0.5): the interval is half-open
NoiseVals == {-HALF, HALF - 1}

\* the shapes (N, C, H, W) of at most MaxElems elements
Shapes4 ==
    {s \in Seqs(1..MaxElems, 4) : Prod(s) <= MaxElems}

TensorsOver(shape, S) == {Tensor(shape, d) : d \in Seqs(S, Prod(shape))}

\* the noise torch.nn.init.uniform_ draws for a tensor of the shape: the
\* elements at odd and at even positions each get one of NoiseVals
NoiseTensors(shape) ==
    {Tensor(shape, [i \in 1..Prod(shape) |-> IF i % 2 = 1 THEN odd ELSE even]) :
        odd \in NoiseVals, even \in NoiseVals}

\* the parameters of one channel after the optimizer has moved them
TrainedChannel ==
    [H |-> <<<<ONE, 2, -ONE>>, <<ONE, 0, 0, 0, ONE, 0, 2, 0, ONE>>,
             <<ONE, 0, 0, 0, ONE, 0, 0, 2, ONE>>, <<ONE, 2, 2>>>>,
     a |-> <<<<0, ONE, 0>>, <<0, 0, -ONE>>, <<ONE, 0, 0>>, <<-HALF>>>>,
     b |-> <<<<1, 0, -2>>, <<0, 3, 0>>, <<-1, 0, 0>>, <<2>>>>]

\* the learned state Hyperprior.forward is called in: the density's
\* parameters per channel and the weights of the transform networks
Learned ==
    {[chan |-> ConstructedChannel(DefaultFilters, -3),
      net |-> [analysis |-> ONE, mu |-> HALF, std |-> ONE]],
     [chan |-> TrainedChannel,
      net |-> [analysis |-> -HALF, mu |-> ONE, std |-> -ONE]]}

InitForward ==
    \E training \in BOOLEAN, mode \in {"small", "large"}, learned \in Learned,
       shape \in Shapes4 :
      \E latents \in TensorsOver(shape, LatVals) :
        LET hyperlatent_filters ==
                IF mode = "small" THEN SMALL_HYPERLATENT_FILTERS
                ELSE LARGE_HYPERLATENT_FILTERS
            ph == ParamHeap(DefaultFilters,
                            [c \in 1..hyperlatent_filters |-> learned.chan])
        IN  /\ heap = Append(ph, latents)
            /\ self = Module(training, hyperlatent_filters, DefaultFilters,
                             learned.net)
            /\ call = [fn |-> "forward", latents |-> Len(ph) + 1]
            /\ pc = "analysis"
            /\ loc = [n \in {"latents"} |-> Len(ph) + 1]
            /\ ret = NotReturned
            /\ heap0 = heap

\* values of the elements of an x given to cdf_logits
LogitVals == {-12, 0, 5}

InitCdfLogits ==
    \E update_parameters \in BOOLEAN, learned \in Learned,
       C \in 1..MaxElems, B \in 1..MaxElems :
      \E x \in TensorsOver(<<C, 1, B>>, LogitVals) :
        LET ph == ParamHeap(DefaultFilters, [c \in 1..C |-> learned.chan])
        IN  /\ Prod(x.shape) <= MaxElems
            /\ heap = Append(ph, x)
            /\ self = Module(FALSE, C, DefaultFilters, NoNet)
            /\ call = [fn |-> "cdf_logits", x |-> Len(ph) + 1,
                       update_parameters |-> update_parameters]
            /\ pc = "cdf_logits"
            /\ loc = [n \in {"x"} |-> Len(ph) + 1]
            /\ ret = NotReturned
            /\ heap0 = heap

Init == InitForward \/ InitCdfLogits

-----------------------------------------------------------------------------
(* Hyperprior.forward, one action per step *)

BindAll(l, f) ==
    [n \in DOMAIN l \cup DOMAIN f |-> IF n \in DOMAIN f THEN f[n] ELSE l[n]]

Running(fn, at) == call.fn = fn /\ pc = at

\* hyperlatents = self.analysis_net(latents)
Forward_analysis ==
    /\ Running("forward", "analysis")
    /\ LET s == Alloc(heap, analysis_net(self.net, self.n_channels,
                                         heap[loc["latents"]]))
       IN  /\ heap' = s.h
           /\ loc' = Bind(loc, "hyperlatents", s.r)
    /\ pc' = "noisy_hyperlatents"
    /\ UNCHANGED <<self, call, ret, heap0>>

\* a branch of forward: quantize x in the mode, take the likelihood of the
\* result and the entropy; shape_of is the tensor _estimate_entropy sizes by
HyperlatentBranch(h, x, mode, noise, sized_by_input) ==
    Let1(_quantize(h, x, mode, noise), LAMBDA q :
    Let1(HyperpriorDensity_likelihood(self, q.h, q.r), LAMBDA lk :
    Let1(_estimate_entropy(IF sized_by_input THEN lk.h[x] ELSE lk.h[q.r],
                           lk.h[lk.r]), LAMBDA e :
      [h |-> lk.h, quantized |-> q.r, likelihood |-> lk.r,
       bits |-> e.n_bits, bpp |-> e.bpp])))

\* noisy_hyperlatents ... noisy_hyperlatent_bpp
Forward_noisy_hyperlatents ==
    /\ Running("forward", "noisy_hyperlatents")
    /\ \E noise \in NoiseTensors(heap[loc["hyperlatents"]].shape) :
         LET s == HyperlatentBranch(heap, loc["hyperlatents"], "noise", noise, TRUE)
         IN  /\ heap' = s.h
             /\ loc' = BindAll(loc,
                    [n \in {"noisy_hyperlatents", "noisy_hyperlatent_likelihood",
                            "noisy_hyperlatent_bits", "noisy_hyperlatent_bpp"} |->
                       CASE n = "noisy_hyperlatents" -> s.quantized
                         [] n = "noisy_hyperlatent_likelihood" -> s.likelihood
                         [] n = "noisy_hyperlatent_bits" -> s.bits
                         [] OTHER -> s.bpp])
    /\ pc' = "quantized_hyperlatents"
    /\ UNCHANGED <<self, call, ret, heap0>>

\* quantized_hyperlatents ... quantized_hyperlatent_bpp
Forward_quantized_hyperlatents ==
    /\ Running("forward", "quantized_hyperlatents")
    /\ LET none == Full(heap[loc["hyperlatents"]].shape, 0)
           s == HyperlatentBranch(heap, loc["hyperlatents"], "quantize", none, FALSE)
       IN  /\ heap' = s.h
           /\ loc' = BindAll(loc,
                  [n \in {"quantized_hyperlatents", "quantized_hyperlatent_likelihood",
                          "quantized_hyperlatent_bits", "quantized_hyperlatent_bpp"} |->
                     CASE n = "quantized_hyperlatents" -> s.quantized
                       [] n = "quantized_hyperlatent_likelihood" -> s.likelihood
                       [] n = "quantized_hyperlatent_bits" -> s.bits
                       [] OTHER -> s.bpp])
    /\ pc' = "select_hyperlatents"
    /\ UNCHANGED <<self, call, ret, heap0>>

\* hyperlatents_decoded: the noisy ones in training, else the quantized ones
Forward_select_hyperlatents ==
    /\ Running("forward", "select_hyperlatents")
    /\ loc' = Bind(loc, "hyperlatents_decoded",
                   IF self.training THEN loc["noisy_hyperlatents"]
                   ELSE loc["quantized_hyperlatents"])
    /\ pc' = "synthesis"
    /\ UNCHANGED <<heap, self, call, ret, heap0>>

\* latent_scales and latent_means
Forward_synthesis ==
    /\ Running("forward", "synthesis")
    /\ LET hd == heap[loc["hyperlatents_decoded"]]
           shape == heap[loc["latents"]].shape
           s1 == Alloc(heap, synthesis_std(self.net, hd, shape))
           s2 == Alloc(s1.h, synthesis_mu(self.net, hd, shape))
       IN  /\ heap' = s2.h
           /\ loc' = Bind(Bind(loc, "latent_scales", s1.r), "latent_means", s2.r)
    /\ pc' = "noisy_latents"
    /\ UNCHANGED <<self, call, ret, heap0>>

\* a branch of forward over the latents: quantize, likelihood under the
\* predicted mean and scale, entropy
LatentBranch(h, x, mode, noise, mean, scale, sized_by_input) ==
    Let1(_quantize(h, x, mode, noise), LAMBDA q :
    Let1(PriorDensity_likelihood(q.h, q.r, mean, scale), LAMBDA lk :
    Let1(_estimate_entropy(IF sized_by_input THEN lk.h[x] ELSE lk.h[q.r],
                           lk.h[lk.r]), LAMBDA e :
      [h |-> lk.h, quantized |-> q.r, likelihood |-> lk.r,
       bits |-> e.n_bits, bpp |-> e.bpp])))

\* noisy_latents ... noisy_latent_bpp
Forward_noisy_latents ==
    /\ Running("forward", "noisy_latents")
    /\ \E noise \in NoiseTensors(heap[loc["latents"]].shape) :
         LET s == LatentBranch(heap, loc["latents"], "noise", noise,
                               loc["latent_means"], loc["latent_scales"], TRUE)
         IN  /\ heap' = s.h
             /\ loc' = BindAll(loc,
                    [n \in {"noisy_latents", "noisy_latent_likelihood",
                            "noisy_latent_bits", "noisy_latent_bpp"} |->
                       CASE n = "noisy_latents" -> s.quantized
                         [] n = "noisy_latent_likelihood" -> s.likelihood
                         [] n = "noisy_latent_bits" -> s.bits
                         [] OTHER -> s.bpp])
    /\ pc' = "quantized_latents"
    /\ UNCHANGED <<self, call, ret, heap0>>

\* quantized_latents ... quantized_latent_bpp
Forward_quantized_latents ==
    /\ Running("forward", "quantized_latents")
    /\ LET none == Full(heap[loc["latents"]].shape, 0)
           s == LatentBranch(heap, loc["latents"], "quantize", none,
                             loc["latent_means"], loc["latent_scales"], FALSE)
       IN  /\ heap' = s.h
           /\ loc' = BindAll(loc,
                  [n \in {"quantized_latents", "quantized_latent_likelihood",
                          "quantized_latent_bits", "quantized_latent_bpp"} |->
                     CASE n = "quantized_latents" -> s.quantized
                       [] n = "quantized_latent_likelihood" -> s.likelihood
                       [] n = "quantized_latent_bits" -> s.bits
                       [] OTHER -> s.bpp])
    /\ pc' = "decode"
    /\ UNCHANGED <<self, call, ret, heap0>>

\* if self.training is True: latents_decoded = self.quantize_latents(...)
\* else: latents_decoder = quantized_latents
Forward_decode ==
    /\ Running("forward", "decode")
    /\ IF self.training
       THEN LET s == quantize_latents(heap, loc["latents"], loc["latent_means"])
            IN  /\ heap' = s.h
                /\ loc' = Bind(loc, "latents_decoded", s.r)
       ELSE /\ heap' = heap
            /\ loc' = Bind(loc, "latents_decoder", loc["quantized_latents"])
    /\ pc' = "info"
    /\ UNCHANGED <<self, call, ret, heap0>>

\* info = HyperInfo(decoded=latents_decoded, ...); return info.  Reading a
\* local variable no assignment has bound raises UnboundLocalError
Forward_info ==
    /\ Running("forward", "info")
    /\ ret' = IF Bound(loc, "latents_decoded") THEN HyperInfo(loc)
              ELSE Raise("UnboundLocalError")
    /\ pc' = "done"
    /\ UNCHANGED <<heap, self, call, loc, heap0>>

\* a call of HyperpriorDensity.cdf_logits(x, update_parameters)
Call_cdf_logits ==
    /\ Running("cdf_logits", "cdf_logits")
    /\ LET s == cdf_logits(self, heap, call.x, call.update_parameters)
       IN  /\ heap' = s.h
           /\ ret' = Returned(s.r)
    /\ pc' = "done"
    /\ UNCHANGED <<self, call, loc, heap0>>

Next ==
    \/ Forward_analysis
    \/ Forward_noisy_hyperlatents
    \/ Forward_quantized_hyperlatents
    \/ Forward_select_hyperlatents
    \/ Forward_synthesis
    \/ Forward_noisy_latents
    \/ Forward_quantized_latents
    \/ Forward_decode
    \/ Forward_info
    \/ Call_cdf_logits

Spec == Init /\ [][Next]_vars

-----------------------------------------------------------------------------
(* The two density models called on their own *)

\* filters=(2,): a cascade of two layers
TwoLayers == <<2>>

\* values of the parameters a density is called with
HVals == {-ONE, ONE}

AVals == {-3 * ONE, 0, ONE}

\* all the parameters of one channel of a cascade of TwoLayers
ChannelSpace ==
    {[H |-> <<h0, <<h1, h1>>>>, a |-> <<a0, <<a1>>>>, b |-> <<b0, <<0>>>>] :
        h0 \in Seqs(HVals, 2), h1 \in HVals,
        a0 \in Seqs(AVals, 2), a1 \in {-3 * ONE, ONE},
        b0 \in {<<0, 0>>, <<3, -2>>}}

\* the parameters of two channels that differ
ChannelPairs ==
    LET p == [H |-> <<<<ONE, ONE>>, <<ONE, ONE>>>>,
              a |-> <<<<0, 0>>, <<ONE>>>>, b |-> <<<<0, 0>>, <<0>>>>]
        q == [H |-> <<<<-ONE, 2 * ONE>>, <<0, ONE>>>>,
              a |-> <<<<-3 * ONE, ONE>>, <<-ONE>>>>, b |-> <<<<3, -2>>, <<1>>>>]
    IN  {<<p, q>>, <<q, p>>}

\* values of the elements of an x given to a likelihood
XVals == {-ONE, 0, 5}

MeanVals == {0, 3}

\* scales: below the floor, at 1.0, wide
ScaleVals == {0, ONE, 3 * ONE}

InitHyperLikelihood ==
    \E shape \in Shapes4 :
      \E chans \in IF shape[2] = 1 THEN {<<c>> : c \in ChannelSpace}
                   ELSE IF shape[2] = 2 THEN ChannelPairs ELSE {},
         x \in TensorsOver(shape, XVals) :
        LET ph == ParamHeap(TwoLayers, chans)
        IN  /\ heap = Append(ph, x)
            /\ self = Module(FALSE, Len(chans), TwoLayers, NoNet)
            /\ call = [fn |-> "HyperpriorDensity.likelihood", x |-> Len(ph) + 1]
            /\ pc = "HyperpriorDensity.likelihood"
            /\ loc = [n \in {"x"} |-> Len(ph) + 1]
            /\ ret = NotReturned
            /\ heap0 = heap

InitPriorLikelihood ==
    \E shape \in Shapes4 :
      \E x \in TensorsOver(shape, XVals), mean \in TensorsOver(shape, MeanVals),
         scale \in TensorsOver(shape, ScaleVals) :
        /\ heap = <<x, mean, scale>>
        /\ self = Module(FALSE, shape[2], <<>>, NoNet)
        /\ call = [fn |-> "PriorDensity.likelihood", x |-> 1, mean |-> 2,
                   scale |-> 3]
        /\ pc = "PriorDensity.likelihood"
        /\ loc = [n \in {"x", "mean", "scale"} |->
                    CASE n = "x" -> 1 [] n = "mean" -> 2 [] OTHER -> 3]
        /\ ret = NotReturned
        /\ heap0 = heap

InitDensity == InitHyperLikelihood \/ InitPriorLikelihood

\* a call of HyperpriorDensity.likelihood(x); the tensors of its local
\* variables stay named in loc
Call_hyper_likelihood ==
    /\ Running("HyperpriorDensity.likelihood", "HyperpriorDensity.likelihood")
    /\ \E s \in {HyperpriorDensity_likelihood(self, heap, call.x)} :
         /\ heap' = s.h
         /\ ret' = Returned(s.r)
         /\ loc' = BindAll(loc,
                [n \in {"upper_in", "cdf_upper", "lower_in", "cdf_lower",
                        "likelihood"} |->
                   CASE n = "upper_in" -> s.upper_in
                     [] n = "cdf_upper" -> s.cdf_upper
                     [] n = "lower_in" -> s.lower_in
                     [] n = "cdf_lower" -> s.cdf_lower
                     [] OTHER -> s.likelihood])
    /\ pc' = "done"
    /\ UNCHANGED <<self, call, heap0>>

\* a call of PriorDensity.likelihood(x, mean, scale)
Call_prior_likelihood ==
    /\ Running("PriorDensity.likelihood", "PriorDensity.likelihood")
    /\ \E s \in {PriorDensity_likelihood(heap, call.x, call.mean, call.scale)} :
         /\ heap' = s.h
         /\ ret' = Returned(s.r)
    /\ pc' = "done"
    /\ UNCHANGED <<self, call, loc, heap0>>

NextDensity == Call_hyper_likelihood \/ Call_prior_likelihood

SpecDensity == InitDensity /\ [][NextDensity]_vars

-----------------------------------------------------------------------------
(* The coding primitives called on their own *)

\* values of the elements given to a rounding: -1.5, -0.5, 0.5, 0.875,
\* 1.5, 2.5
RoundVals == {-12, -HALF, HALF, 7, 12, 20}

\* modes a caller may pass to _quantize; "round" is not one it knows
Modes == {"noise", "quantize", "round"}

\* likelihoods in [MIN_LIKELIHOOD, MAX_LIKELIHOOD]: the lower clamp, 0.5,
\* just below 1, 1, 2, the upper clamp
LikVals ==
    {MIN_LIKELIHOOD, PONE \div 2, PONE - EPS, PONE, 2 * PONE, MAX_LIKELIHOOD}

InitQuantize ==
    \E shape \in Shapes4 :
      \E x \in TensorsOver(shape, RoundVals), mode \in Modes :
        /\ heap = <<x>>
        /\ self = Module(FALSE, shape[2], <<>>, NoNet)
        /\ call = [fn |-> "_quantize", x |-> 1, mode |-> mode]
        /\ pc = "_quantize"
        /\ loc = [n \in {"x"} |-> 1]
        /\ ret = NotReturned
        /\ heap0 = heap

InitEstimateEntropy ==
    \E shape \in Shapes4 :
      \E likelihood \in TensorsOver(shape, LikVals) :
        /\ heap = <<Full(shape, 0), likelihood>>
        /\ self = Module(FALSE, shape[2], <<>>, NoNet)
        /\ call = [fn |-> "_estimate_entropy", x |-> 1, likelihood |-> 2]
        /\ pc = "_estimate_entropy"
        /\ loc = [n \in {"x", "likelihood"} |-> IF n = "x" THEN 1 ELSE 2]
        /\ ret = NotReturned
        /\ heap0 = heap

InitQuantizeLatents ==
    \E shape \in Shapes4 :
      \E values \in TensorsOver(shape, RoundVals),
         means \in TensorsOver(shape, MeanVals) :
        /\ heap = <<values, means>>
        /\ self = Module(TRUE, shape[2], <<>>, NoNet)
        /\ call = [fn |-> "quantize_latents", values |-> 1, means |-> 2]
        /\ pc = "quantize_latents"
        /\ loc = [n \in {"values", "means"} |-> IF n = "values" THEN 1 ELSE 2]
        /\ ret = NotReturned
        /\ heap0 = heap

InitPrims == InitQuantize \/ InitEstimateEntropy \/ InitQuantizeLatents

\* a call of CodingModel._quantize(x, mode), with the noise it draws
Call_quantize ==
    /\ Running("_quantize", "_quantize")
    /\ \E noise \in NoiseTensors(heap[call.x].shape) :
         \E s \in {_quantize(heap, call.x, call.mode, noise)} :
           IF s.err = NoError
           THEN heap' = s.h /\ ret' = Returned(s.r)
           ELSE heap' = heap /\ ret' = Raise(s.err)
    /\ pc' = "done"
    /\ UNCHANGED <<self, call, loc, heap0>>

\* a call of CodingModel._estimate_entropy(x, likelihood)
Call_estimate_entropy ==
    /\ Running("_estimate_entropy", "_estimate_entropy")
    /\ \E e \in {_estimate_entropy(heap[call.x], heap[call.likelihood])} :
         ret' = [kind |-> "entropy", n_bits |-> e.n_bits, bpp |-> e.bpp]
    /\ pc' = "done"
    /\ UNCHANGED <<heap, self, call, loc, heap0>>

\* a call of Hyperprior.quantize_latents(values, means)
Call_quantize_latents ==
    /\ Running("quantize_latents", "quantize_latents")
    /\ \E s \in {quantize_latents(heap, call.values, call.means)} :
         /\ heap' = s.h
         /\ ret' = Returned(s.r)
    /\ pc' = "done"
    /\ UNCHANGED <<self, call, loc, heap0>>

NextPrims == Call_quantize \/ Call_estimate_entropy \/ Call_quantize_latents

SpecPrims == InitPrims /\ [][NextPrims]_vars

-----------------------------------------------------------------------------
(* Properties of Hyperprior.forward and of the frame *)

\* the call of fn has come to its end
Done(fn) == call.fn = fn /\ pc = "done"

\* the tensor the caller passed in
InputRef == IF call.fn = "forward" THEN call.latents ELSE call.x

\* the per-layer parameters H_k, a_k, b_k
ParamRefs == UNION {{self.H[k], self.a[k], self.b[k]} : k \in DOMAIN self.H}

\* the rate of the discrete branches as a function of the input latents and
\* the parameters alone: no noise enters it
DiscreteRate ==
    LET shape == heap0[call.latents].shape
    IN  Let1(Alloc(heap0, analysis_net(self.net, self.n_channels,
                                       heap0[call.latents])), LAMBDA an :
        Let1(HyperlatentBranch(an.h, an.r, "quantize",
                               Full(an.h[an.r].shape, 0), FALSE), LAMBDA hb :
        Let1(Alloc(hb.h, synthesis_std(self.net, hb.h[hb.quantized], shape)),
             LAMBDA sc :
        Let1(Alloc(sc.h, synthesis_mu(self.net, hb.h[hb.quantized], shape)),
             LAMBDA mu :
        Let1(LatentBranch(mu.h, call.latents, "quantize", Full(shape, 0),
                          mu.r, sc.r, FALSE), LAMBDA lb :
          lb.bpp + hb.bpp)))))

\* C1: when forward is called with the training flag false, it returns a
\* HyperInfo record whose decoded field is the hard-quantized latents,
\* torch.round of the input latents
C1_DecodedIsHardQuantized ==
    (Done("forward") /\ ~self.training)
        => /\ ret.kind = "HyperInfo"
           /\ heap[ret.decoded] = Map(Round, heap0[call.latents])

\* C2: forward is total in both phases: every call that ends has run all its
\* steps without raising and returns a HyperInfo record
C2_ForwardReturnsInfo ==
    Done("forward") => ret.kind = "HyperInfo"

\* C3: in training phase the record forward returns has total_nbpp =
\* latent_nbpp + hyperlatent_nbpp and total_qbpp = latent_qbpp +
\* hyperlatent_qbpp, and its decoded tensor has the shape of the input latents
C3_TrainingTotalsAndShape ==
    (Done("forward") /\ self.training)
        => /\ ret.kind = "HyperInfo"
           /\ ret.total_nbpp = ret.latent_nbpp + ret.hyperlatent_nbpp
           /\ ret.total_qbpp = ret.latent_qbpp + ret.hyperlatent_qbpp
           /\ heap[ret.decoded].shape = heap0[call.latents].shape

\* a training call has returned a record whose noisy and discrete
\* hyperlatent rates differ, over latents of more than one element
C3_TrainingReturned ==
    /\ Done("forward") /\ self.training
    /\ ret.kind = "HyperInfo"
    /\ ret.hyperlatent_nbpp # ret.hyperlatent_qbpp
    /\ ret.latent_nbpp > 0
    /\ Numel(heap[ret.decoded]) > 1

\* C4: with the training flag false, forward returns a record whose
\* total_qbpp is the rate of the discrete branches, the same whatever noise
\* the noise-mode _quantize calls drew
C4_DiscreteRateNoiseFree ==
    (Done("forward") /\ ~self.training)
        => /\ ret.kind = "HyperInfo"
           /\ ret.total_qbpp = DiscreteRate

\* C8: the parameters H_k, a_k, b_k and the caller's input tensor hold the
\* values they had before the call, throughout and after forward (in either
\* phase) and cdf_logits (with update_parameters true or false)
C8_FrameKept ==
    \A r \in ParamRefs \cup {InputRef} : heap[r] = heap0[r]

\* cdf_logits with update_parameters false has returned a tensor it created,
\* different from its input
C8_CdfLogitsReturned ==
    /\ Done("cdf_logits") /\ ~call.update_parameters
    /\ ret.r > Len(heap0)
    /\ heap[ret.r] # heap0[call.x]

-----------------------------------------------------------------------------
(* Properties of the coding primitives *)

\* the likelihood tensor given to _estimate_entropy has all its elements in
\* [lo, hi]
LikelihoodsWithin(lo, hi) ==
    \A i \in 1..Numel(heap0[call.likelihood]) :
        /\ lo <= heap0[call.likelihood].data[i]
        /\ heap0[call.likelihood].data[i] <= hi

\* C5, as stated: for every likelihood tensor with all elements in
\* [MIN_LIKELIHOOD, MAX_LIKELIHOOD], the bit count and the bits per pixel
\* _estimate_entropy returns are non-negative
C5_EntropyNonNegativeClamped ==
    (Done("_estimate_entropy")
     /\ LikelihoodsWithin(MIN_LIKELIHOOD, MAX_LIKELIHOOD))
        => ret.n_bits >= 0 /\ ret.bpp >= 0

\* C5, amended: for every likelihood tensor with all elements in
\* [MIN_LIKELIHOOD, 1 - EPS], the bit count and the bits per pixel
\* _estimate_entropy returns are non-negative
C5_EntropyNonNegativeBelowOne ==
    (Done("_estimate_entropy")
     /\ LikelihoodsWithin(MIN_LIKELIHOOD, PONE - EPS))
        => ret.n_bits >= 0 /\ ret.bpp >= 0

\* _estimate_entropy has returned a positive bit count for likelihoods that
\* reach from the lower clamp to just below 1
C5_PositiveBits ==
    /\ Done("_estimate_entropy")
    /\ LikelihoodsWithin(MIN_LIKELIHOOD, PONE - EPS)
    /\ \E i \in 1..Numel(heap0[call.likelihood]) :
           heap0[call.likelihood].data[i] = PONE - EPS
    /\ ret.n_bits > 0 /\ ret.bpp > 0

\* values - means of element i of a quantize_latents call
Centered(i) == heap0[call.values].data[i] - heap0[call.means].data[i]

\* v lies exactly halfway between two integers
Halfway(v) == v % ONE = HALF

\* C6, as stated: quantize_latents returns, element-wise, exactly
\* means + round(values - means), round being torch.round of mode
\* 'quantize', also where values - means is halfway between two integers
C6_EqualsHardRounding ==
    Done("quantize_latents")
        => \A i \in 1..Numel(heap[ret.r]) :
               heap[ret.r].data[i]
                   = heap0[call.means].data[i] + Round(Centered(i))

\* C6, amended: quantize_latents returns, element-wise, means +
\* round(values - means) where values - means is not halfway between two
\* integers, and means + values - means + 0.5, the half rounded up, where
\* it is
C6_RoundsHalfUp ==
    Done("quantize_latents")
        => \A i \in 1..Numel(heap[ret.r]) :
               heap[ret.r].data[i]
                   = heap0[call.means].data[i]
                     + (IF Halfway(Centered(i)) THEN Centered(i) + HALF
                        ELSE Round(Centered(i)))

\* quantize_latents has returned for an element halfway between two
\* integers that torch.round rounds down, and for one that is not halfway
C6_HalfwayQuantized ==
    /\ Done("quantize_latents")
    /\ \E i \in 1..Numel(heap[ret.r]) :
           Halfway(Centered(i)) /\ Round(Centered(i)) < Centered(i)
    /\ \E i \in 1..Numel(heap[ret.r]) : ~Halfway(Centered(i))

-----------------------------------------------------------------------------
(* Properties of the density models *)

\* the channel of element i of a tensor in (C, 1, B) format
ChannelOf(t, i) == (i - 1) \div t.shape[3]

\* the inputs the two cdf_logits calls of a likelihood call were given, and
\* the logits they returned, in the same order
CdfInputs == heap[loc["upper_in"]].data \o heap[loc["lower_in"]].data

CdfOutputs == heap[loc["cdf_upper"]].data \o heap[loc["cdf_lower"]].data

\* elements i and j of CdfInputs are of the same channel
SameChannel(i, j) ==
    LET t == heap[loc["upper_in"]]
        n == Numel(t)
    IN  ChannelOf(t, ((i - 1) % n) + 1) = ChannelOf(t, ((j - 1) % n) + 1)

\* C7: every element of the tensor PriorDensity.likelihood and
\* HyperpriorDensity.likelihood return lies in
\* [MIN_LIKELIHOOD, MAX_LIKELIHOOD]
C7_LikelihoodsClamped ==
    (Done("HyperpriorDensity.likelihood") \/ Done("PriorDensity.likelihood"))
        => \A i \in 1..Numel(heap[ret.r]) :
               /\ MIN_LIKELIHOOD <= heap[ret.r].data[i]
               /\ heap[ret.r].data[i] <= MAX_LIKELIHOOD

\* HyperpriorDensity.likelihood has returned where the two sigmoids cancel
\* to 0 before the clamp
C7_CancelledLikelihoodClamped ==
    /\ Done("HyperpriorDensity.likelihood")
    /\ \E i \in 1..Numel(heap[loc["likelihood"]]) :
           heap[loc["likelihood"]].data[i] = 0
    /\ \E i \in 1..Numel(heap[ret.r]) : heap[ret.r].data[i] = MIN_LIKELIHOOD

\* C9: for fixed parameters, cdf_logits is non-decreasing per channel: for
\* two inputs x1 < x2 of the same channel, cdf_logits(x1) <= cdf_logits(x2)
C9_CdfLogitsNonDecreasing ==
    Done("HyperpriorDensity.likelihood")
        => \A i, j \in 1..Len(CdfInputs) :
               (SameChannel(i, j) /\ CdfInputs[i] < CdfInputs[j])
                   => CdfOutputs[i] <= CdfOutputs[j]

\* cdf_logits has been evaluated at two ordered inputs of a channel that has
\* a negative weight H_0 and a negative a_0, and its logits differ
C9_OrderedInputsEvaluated ==
    /\ Done("HyperpriorDensity.likelihood")
    /\ \E i, j \in 1..Len(CdfInputs) :
           /\ SameChannel(i, j)
           /\ CdfInputs[i] < CdfInputs[j]
           /\ CdfOutputs[i] < CdfOutputs[j]
    /\ \E e \in 1..Numel(heap[self.H[1]]) : heap[self.H[1]].data[e] < 0
    /\ \E e \in 1..Numel(heap[self.a[1]]) : heap[self.a[1]].data[e] < 0

\* C10: for every pair of CDF logits with upper >= lower, the sign-flipped
\* likelihood |sigmoid(s * upper) - sigmoid(s * lower)|, s = -sign(upper +
\* lower), equals sigmoid(upper) - sigmoid(lower) before the clamp, also
\* where upper + lower = 0
C10_SignFlipIsIdentity ==
    Done("HyperpriorDensity.likelihood")
        => \A i \in 1..Numel(heap[loc["likelihood"]]) :
               LET upper == heap[loc["cdf_upper"]].data[i]
                   lower == heap[loc["cdf_lower"]].data[i]
               IN  upper >= lower
                       => heap[loc["likelihood"]].data[i]
                              = Sigmoid(upper) - Sigmoid(lower)

=============================================================================
